---- MODULE Spec2Model ----
(***************************************************************************)
(* Model of app/models.py: the persisted entities (users, test types,      *)
(* test parameters, reference ranges, test reports, test results), the     *)
(* transfer schemas that validate caller input, and the create / patch     *)
(* operations that move validated input into the tables.                   *)
(*                                                                         *)
(* Values are tagged records so that values of different Python types can  *)
(* be compared; a string is a tuple of one-character strings.              *)
(***************************************************************************)
EXTENDS Integers, Sequences, FiniteSets, TLC

VARIABLES db, now, last

vars == <<db, now, last>>

(***************************************************************************)
(* Bounds of the model.                                                    *)
(***************************************************************************)
MaxUsers == 2
MaxTypes == 2
MaxParams == 2
MaxRanges == 1
MaxReports == 1
MaxResults == 1
MaxTime == 1

(***************************************************************************)
(* Python values.                                                          *)
(***************************************************************************)
None == [t |-> "none"]
S(s) == [t |-> "str", v |-> s]
I(n) == [t |-> "int", v |-> n]
B(b) == [t |-> "bool", v |-> b]
T(n) == [t |-> "datetime", v |-> n]
\* decimal.Decimal: coef * 10^(-places), e.g. Decimal("5.1") = D(51, 1)
D(c, p) == [t |-> "dec", coef |-> c, places |-> p]
\* an empty dict (TestReport.extra_metadata)
EmptyDict == [t |-> "dict", v |-> <<>>]

\* a string of n characters
Pad(n) == [i \in 1..n |-> "x"]

RECURSIVE Pow10(_)
Pow10(n) == IF n = 0 THEN 1 ELSE 10 * Pow10(n - 1)

(***************************************************************************)
(* Enumerations (str-valued Enum classes): the closed sets of values.      *)
(***************************************************************************)
Pending == <<"p","e","n","d","i","n","g">>
Completed == <<"c","o","m","p","l","e","t","e","d">>
Reviewed == <<"r","e","v","i","e","w","e","d">>
TestStatus == {Pending, Completed, Reviewed}

Male == <<"m","a","l","e">>
Female == <<"f","e","m","a","l","e">>
Other == <<"o","t","h","e","r">>
\* Gender with the member OTHER left out.
GenderWithoutOther == {Male, Female}
Gender == {Male, Female, Other}

Child == <<"c","h","i","l","d">>
Teen == <<"t","e","e","n">>
Adult == <<"a","d","u","l","t">>
Senior == <<"s","e","n","i","o","r">>
AgeGroup == {Child, Teen, Adult, Senior}

EnumValues(ty) ==
  CASE ty = "TestStatus" -> TestStatus
    [] ty = "Gender" -> Gender
    [] ty = "AgeGroup" -> AgeGroup
    [] OTHER -> {}

EnumTypes == {"TestStatus", "Gender", "AgeGroup"}

(***************************************************************************)
(* The email pattern declared on User.email:                               *)
(*   ^[a-zA-Z0-9_.+-]+@[a-zA-Z0-9-]+\.[a-zA-Z0-9-.]+$                      *)
(***************************************************************************)
Alnum ==
  {"a","b","c","d","e","f","g","h","i","j","k","l","m","n","o","p","q","r",
   "s","t","u","v","w","x","y","z",
   "A","B","C","D","E","F","G","H","I","J","K","L","M","N","O","P","Q","R",
   "S","T","U","V","W","X","Y","Z",
   "0","1","2","3","4","5","6","7","8","9"}
LocalChars == Alnum \cup {"_", ".", "+", "-"}
DomainChars == Alnum \cup {"-"}
TldChars == Alnum \cup {"-", "."}

AllIn(s, lo, hi, cls) == lo <= hi /\ \A k \in lo..hi : s[k] \in cls

MatchesEmailPattern(s) ==
  \E i \in 1..Len(s) : \E j \in (i + 1)..Len(s) :
    /\ s[i] = "@"
    /\ s[j] = "."
    /\ AllIn(s, 1, i - 1, LocalChars)
    /\ AllIn(s, i + 1, j - 1, DomainChars)
    /\ AllIn(s, j + 1, Len(s), TldChars)

MatchesPattern(p, s) == p = "email" => MatchesEmailPattern(s)

(***************************************************************************)
(* Field declarations.  A field is                                         *)
(*   type, nullable (Optional[...]), required (no default), default,       *)
(*   max_length / decimal_places / regex (a set: empty when not declared), *)
(*   and the column constraints unique, foreign_key, primary_key.          *)
(***************************************************************************)
Base(ty) ==
  [type |-> ty, nullable |-> FALSE, required |-> TRUE, default |-> None,
   factory |-> FALSE, max_length |-> {}, decimal_places |-> {}, regex |-> {},
   unique |-> FALSE, foreign_key |-> {}, primary_key |-> FALSE]

\* x: str = Field(max_length=n)
Str(n) == [Base("str") EXCEPT !.max_length = {n}]
\* x: Decimal = Field(decimal_places=n)
Dec(n) == [Base("Decimal") EXCEPT !.decimal_places = {n}]
\* x: Optional[T] = Field(default=None, ...)
Opt(f) == [f EXCEPT !.nullable = TRUE, !.required = FALSE, !.default = None]
\* x: T = Field(default=d, ...)
Dflt(f, d) == [f EXCEPT !.required = FALSE, !.default = d]
\* x: datetime = Field(default_factory=datetime.utcnow)
Factory(f) == [f EXCEPT !.required = FALSE, !.factory = TRUE]
Unique(f) == [f EXCEPT !.unique = TRUE]
Regex(f, p) == [f EXCEPT !.regex = {p}]
\* x: int = Field(foreign_key="<table>.id")
Fk(tbl) == [Base("int") EXCEPT !.foreign_key = {tbl}]
\* id: Optional[int] = Field(default=None, primary_key=True)
Pk == [Opt(Base("int")) EXCEPT !.primary_key = TRUE]

(***************************************************************************)
(* Persistent models (table=True).                                         *)
(***************************************************************************)
\* User with the unique constraint on email left out.
UserWithoutUniqueEmail ==
  [id |-> Pk,
   name |-> Str(100),
   email |-> Regex(Str(255), "email"),
   date_of_birth |-> Opt(Base("datetime")),
   gender |-> Opt(Base("Gender")),
   is_active |-> Dflt(Base("bool"), B(TRUE)),
   created_at |-> Factory(Base("datetime")),
   updated_at |-> Opt(Base("datetime"))]

User ==
  [id |-> Pk,
   name |-> Str(100),
   email |-> Regex(Unique(Str(255)), "email"),
   date_of_birth |-> Opt(Base("datetime")),
   gender |-> Opt(Base("Gender")),
   is_active |-> Dflt(Base("bool"), B(TRUE)),
   created_at |-> Factory(Base("datetime")),
   updated_at |-> Opt(Base("datetime"))]

TestType ==
  [id |-> Pk,
   name |-> Unique(Str(100)),
   description |-> Dflt(Str(500), S(<<>>)),
   category |-> Str(50),
   is_active |-> Dflt(Base("bool"), B(TRUE)),
   created_at |-> Factory(Base("datetime"))]

TestParameter ==
  [id |-> Pk,
   test_type_id |-> Fk("test_types"),
   name |-> Str(100),
   code |-> Str(20),
   unit |-> Str(20),
   description |-> Dflt(Str(300), S(<<>>)),
   is_active |-> Dflt(Base("bool"), B(TRUE)),
   created_at |-> Factory(Base("datetime"))]

ReferenceRange ==
  [id |-> Pk,
   test_parameter_id |-> Fk("test_parameters"),
   gender |-> Opt(Base("Gender")),
   age_group |-> Opt(Base("AgeGroup")),
   min_age |-> Opt(Base("int")),
   max_age |-> Opt(Base("int")),
   min_value |-> Opt(Dec(3)),
   max_value |-> Opt(Dec(3)),
   optimal_min |-> Opt(Dec(3)),
   optimal_max |-> Opt(Dec(3)),
   notes |-> Dflt(Str(300), S(<<>>)),
   is_active |-> Dflt(Base("bool"), B(TRUE)),
   created_at |-> Factory(Base("datetime"))]

TestReport ==
  [id |-> Pk,
   user_id |-> Fk("users"),
   test_type_id |-> Fk("test_types"),
   report_name |-> Str(200),
   test_date |-> Base("datetime"),
   lab_name |-> Dflt(Str(100), S(<<>>)),
   doctor_name |-> Dflt(Str(100), S(<<>>)),
   status |-> Dflt(Base("TestStatus"), S(Pending)),
   notes |-> Dflt(Str(1000), S(<<>>)),
   file_path |-> Opt(Str(500)),
   file_name |-> Opt(Str(255)),
   extra_metadata |-> Dflt(Base("dict"), EmptyDict),
   created_at |-> Factory(Base("datetime")),
   updated_at |-> Opt(Base("datetime"))]

\* TestResult with the foreign keys declared as plain integers.
TestResultWithoutForeignKeys ==
  [id |-> Pk,
   test_report_id |-> Base("int"),
   test_parameter_id |-> Base("int"),
   value |-> Dec(3),
   is_abnormal |-> Dflt(Base("bool"), B(FALSE)),
   abnormal_flag |-> Opt(Str(10)),
   notes |-> Dflt(Str(300), S(<<>>)),
   created_at |-> Factory(Base("datetime"))]

TestResult ==
  [id |-> Pk,
   test_report_id |-> Fk("test_reports"),
   test_parameter_id |-> Fk("test_parameters"),
   value |-> Dec(3),
   is_abnormal |-> Dflt(Base("bool"), B(FALSE)),
   abnormal_flag |-> Opt(Str(10)),
   notes |-> Dflt(Str(300), S(<<>>)),
   created_at |-> Factory(Base("datetime"))]

TableModel ==
  [users |-> User,
   test_types |-> TestType,
   test_parameters |-> TestParameter,
   reference_ranges |-> ReferenceRange,
   test_reports |-> TestReport,
   test_results |-> TestResult]

TableNames == DOMAIN TableModel

(***************************************************************************)
(* Non-persistent schemas (table=False): validated at construction.        *)
(***************************************************************************)
UserCreate ==
  [name |-> Str(100),
   email |-> Str(255),
   date_of_birth |-> Opt(Base("datetime")),
   gender |-> Opt(Base("Gender"))]

UserUpdate ==
  [name |-> Opt(Str(100)),
   email |-> Opt(Str(255)),
   date_of_birth |-> Opt(Base("datetime")),
   gender |-> Opt(Base("Gender"))]

TestTypeCreate ==
  [name |-> Str(100),
   description |-> Dflt(Str(500), S(<<>>)),
   category |-> Str(50)]

TestParameterCreate ==
  [test_type_id |-> Base("int"),
   name |-> Str(100),
   code |-> Str(20),
   unit |-> Str(20),
   description |-> Dflt(Str(300), S(<<>>))]

ReferenceRangeCreate ==
  [test_parameter_id |-> Base("int"),
   gender |-> Opt(Base("Gender")),
   age_group |-> Opt(Base("AgeGroup")),
   min_age |-> Opt(Base("int")),
   max_age |-> Opt(Base("int")),
   min_value |-> Opt(Dec(3)),
   max_value |-> Opt(Dec(3)),
   optimal_min |-> Opt(Dec(3)),
   optimal_max |-> Opt(Dec(3)),
   notes |-> Dflt(Str(300), S(<<>>))]

\* TestReportCreate with notes limited to 100 characters.
TestReportCreateShortNotes ==
  [user_id |-> Base("int"),
   test_type_id |-> Base("int"),
   report_name |-> Str(200),
   test_date |-> Base("datetime"),
   lab_name |-> Dflt(Str(100), S(<<>>)),
   doctor_name |-> Dflt(Str(100), S(<<>>)),
   notes |-> Dflt(Str(100), S(<<>>))]

\* TestReportCreate that also carries the report's status.
TestReportCreateWithStatus ==
  [user_id |-> Base("int"),
   test_type_id |-> Base("int"),
   report_name |-> Str(200),
   test_date |-> Base("datetime"),
   lab_name |-> Dflt(Str(100), S(<<>>)),
   doctor_name |-> Dflt(Str(100), S(<<>>)),
   status |-> Dflt(Base("TestStatus"), S(Pending)),
   notes |-> Dflt(Str(1000), S(<<>>))]

TestReportCreate ==
  [user_id |-> Base("int"),
   test_type_id |-> Base("int"),
   report_name |-> Str(200),
   test_date |-> Base("datetime"),
   lab_name |-> Dflt(Str(100), S(<<>>)),
   doctor_name |-> Dflt(Str(100), S(<<>>)),
   notes |-> Dflt(Str(1000), S(<<>>))]

\* TestReportUpdate whose status defaults to PENDING, as on the table model.
TestReportUpdateStatusDefault ==
  [report_name |-> Opt(Str(200)),
   lab_name |-> Opt(Str(100)),
   doctor_name |-> Opt(Str(100)),
   status |-> Dflt(Base("TestStatus"), S(Pending)),
   notes |-> Opt(Str(1000))]

TestReportUpdate ==
  [report_name |-> Opt(Str(200)),
   lab_name |-> Opt(Str(100)),
   doctor_name |-> Opt(Str(100)),
   status |-> Opt(Base("TestStatus")),
   notes |-> Opt(Str(1000))]

\* TestResultCreate that admits 4 decimal places.
TestResultCreateFourPlaces ==
  [test_report_id |-> Base("int"),
   test_parameter_id |-> Base("int"),
   value |-> Dec(4),
   is_abnormal |-> Dflt(Base("bool"), B(FALSE)),
   abnormal_flag |-> Opt(Str(10)),
   notes |-> Dflt(Str(300), S(<<>>))]

TestResultCreate ==
  [test_report_id |-> Base("int"),
   test_parameter_id |-> Base("int"),
   value |-> Dec(3),
   is_abnormal |-> Dflt(Base("bool"), B(FALSE)),
   abnormal_flag |-> Opt(Str(10)),
   notes |-> Dflt(Str(300), S(<<>>))]

TestResultUpdate ==
  [value |-> Opt(Dec(3)),
   is_abnormal |-> Opt(Base("bool")),
   abnormal_flag |-> Opt(Str(10)),
   notes |-> Opt(Str(300))]

Schemas ==
  [UserCreate |-> UserCreate,
   UserUpdate |-> UserUpdate,
   TestTypeCreate |-> TestTypeCreate,
   TestParameterCreate |-> TestParameterCreate,
   ReferenceRangeCreate |-> ReferenceRangeCreate,
   TestReportCreate |-> TestReportCreate,
   TestReportUpdate |-> TestReportUpdate,
   TestResultCreate |-> TestResultCreate,
   TestResultUpdate |-> TestResultUpdate]

(***************************************************************************)
(* Construction of a schema instance from caller data: every declared      *)
(* field is checked against its type and constraints; keys that the schema *)
(* does not declare are ignored; an absent field takes its default.        *)
(***************************************************************************)
TypeMatches(ty, v) ==
  CASE ty = "str" -> v.t = "str"
    [] ty = "int" -> v.t = "int"
    [] ty = "bool" -> v.t = "bool"
    [] ty = "datetime" -> v.t = "datetime"
    [] ty = "Decimal" -> v.t = "dec"
    [] ty = "dict" -> v.t = "dict"
    [] ty \in EnumTypes -> v.t = "str" /\ v.v \in EnumValues(ty)
    [] OTHER -> FALSE

ConstraintsHold(f, v) ==
  /\ v.t = "str" =>
       /\ \A n \in f.max_length : Len(v.v) <= n
       /\ \A p \in f.regex : MatchesPattern(p, v.v)
  /\ v.t = "dec" => \A n \in f.decimal_places : v.places <= n

FieldValid(f, v) ==
  IF v = None THEN f.nullable
  ELSE TypeMatches(f.type, v) /\ ConstraintsHold(f, v)

Validate(schema, data) ==
  LET given == DOMAIN data \cap DOMAIN schema
      errors == {k \in DOMAIN schema :
                   \/ k \notin given /\ schema[k].required
                   \/ k \in given /\ ~FieldValid(schema[k], data[k])}
  IN [ok |-> errors = {},
      errors |-> errors,
      fields_set |-> given,
      value |-> [k \in DOMAIN schema |->
                   IF k \in given THEN data[k] ELSE schema[k].default]]

(***************************************************************************)
(* Storage.  db maps each table name to the sequence of its rows; the      *)
(* auto-assigned primary key of a row is its position.                     *)
(***************************************************************************)
Rows(d, tname) == {d[tname][i] : i \in 1..Len(d[tname])}

\* A NUMERIC column of the given scale holds every value at that scale.
Quantize(v, n) ==
  IF v.places <= n
    THEN D(v.coef * Pow10(n - v.places), n)
    ELSE D((v.coef + 5 * Pow10(v.places - n - 1)) \div Pow10(v.places - n), n)

ColumnStore(f, v) ==
  IF v.t = "dec" /\ f.decimal_places # {}
    THEN Quantize(v, CHOOSE n \in f.decimal_places : TRUE)
    ELSE v

\* The row a table model builds from the validated fields of a Create
\* schema: a field the data does not carry takes the model's default
\* (created_at: the clock), the id is assigned by the table.
NewRow(model, data, newId, clock) ==
  [k \in DOMAIN model |->
     IF model[k].primary_key THEN I(newId)
     ELSE IF k \in DOMAIN data THEN ColumnStore(model[k], data[k])
     ELSE IF model[k].factory THEN T(clock)
     ELSE model[k].default]

NotNullOK(model, row) ==
  \A k \in DOMAIN model : row[k] = None => model[k].nullable

UniqueOK(model, rows, row) ==
  \A k \in DOMAIN model :
    model[k].unique => \A r \in rows : r.id # row.id => r[k] # row[k]

ForeignKeysOK(d, model, row) ==
  \A k \in DOMAIN model : \A tbl \in model[k].foreign_key :
    row[k] # None => \E r \in Rows(d, tbl) : r.id = row[k]

ConstraintsOK(d, tname, row) ==
  /\ NotNullOK(TableModel[tname], row)
  /\ UniqueOK(TableModel[tname], Rows(d, tname), row)
  /\ ForeignKeysOK(d, TableModel[tname], row)

\* A patch assigns the fields it carries; a field left at None is not
\* touched.
ApplyPatch(model, row, patch) ==
  [k \in DOMAIN row |->
     IF k \in DOMAIN patch /\ patch[k] # None
       THEN ColumnStore(model[k], patch[k])
       ELSE row[k]]

NoOp == [op |-> "none", table |-> "none", data |-> <<>>, ok |-> TRUE,
         error |-> "none", fields |-> {}, id |-> 0, instance |-> <<>>]

Outcome(op, tname, data, ok, error, fields, id) ==
  [op |-> op, table |-> tname, data |-> data, ok |-> ok, error |-> error,
   fields |-> fields, id |-> id, instance |-> <<>>]

Init ==
  /\ db = [tname \in TableNames |-> <<>>]
  /\ now = 0
  /\ last = NoOp

\* Constructing a schema instance: the outcome the caller sees.
Construct(sname, data) ==
  LET r == Validate(Schemas[sname], data)
  IN [Outcome(sname, "none", data, r.ok,
              IF r.ok THEN "none" ELSE "ValidationError", r.errors, 0)
        EXCEPT !.instance = IF r.ok THEN r.value ELSE <<>>]

\* Create: validate the caller's data with the Create schema, build the
\* row, insert it under the table's constraints.  The result is the new
\* contents of the storage and the outcome the caller sees.
Create(op, tname, sname, data) ==
  LET r == Validate(Schemas[sname], data)
      newId == Len(db[tname]) + 1
      row == NewRow(TableModel[tname], r.value, newId, now)
  IN IF ~r.ok
       THEN [db |-> db,
             last |-> Outcome(op, tname, data, FALSE, "ValidationError",
                              r.errors, 0)]
     ELSE IF ~ConstraintsOK(db, tname, row)
       THEN [db |-> db,
             last |-> Outcome(op, tname, data, FALSE, "IntegrityError",
                              {}, 0)]
     ELSE [db |-> [db EXCEPT ![tname] = Append(@, row)],
           last |-> Outcome(op, tname, data, TRUE, "none", {}, newId)]

\* Patch: validate the caller's data with the Update schema and apply it
\* to the row with the given id.
Patch(op, tname, sname, id, data) ==
  LET r == Validate(Schemas[sname], data)
      row == ApplyPatch(TableModel[tname], db[tname][id], r.value)
  IN IF ~r.ok
       THEN [db |-> db,
             last |-> Outcome(op, tname, data, FALSE, "ValidationError",
                              r.errors, id)]
     ELSE IF ~ConstraintsOK(db, tname, row)
       THEN [db |-> db,
             last |-> Outcome(op, tname, data, FALSE, "IntegrityError",
                              {}, id)]
     ELSE [db |-> [db EXCEPT ![tname][id] = row],
           last |-> Outcome(op, tname, data, TRUE, "none", {}, id)]

\* Deactivation that also drops the results of the parameter.
DeactivateCascade(op, tname, id) ==
  [db |-> [db EXCEPT ![tname][id].is_active = B(FALSE),
                     !.test_results =
                        SelectSeq(@, LAMBDA x : x.test_parameter_id # I(id))],
   last |-> Outcome(op, tname, <<>>, TRUE, "none", {}, id)]

\* Soft deactivation: the row stays, its is_active flag is cleared.
Deactivate(op, tname, id) ==
  [db |-> [db EXCEPT ![tname][id].is_active = B(FALSE)],
   last |-> Outcome(op, tname, <<>>, TRUE, "none", {}, id)]

\* datetime.utcnow() moves on.
Tick ==
  /\ now < MaxTime
  /\ now' = now + 1
  /\ UNCHANGED <<db, last>>

(***************************************************************************)
(* Caller inputs.                                                          *)
(***************************************************************************)
NameA == <<"A","n","n">>
NameB == <<"B","o","b">>
EmailA == <<"a","@","b",".","c","o">>
EmailB == <<"d","+","1","@","b","-","c",".","o","r","g">>
\* no "@"
EmailBad == <<"a",".","b">>
\* nothing after the "."
EmailBad2 == <<"a","@","b",".">>
UpperMale == <<"M","A","L","E">>
Unknown == <<"u","n","k","n","o","w","n">>

\* A valid value for a field, by its declared type.
ValidValue(f) ==
  CASE f.type = "str" -> S(NameA)
    [] f.type = "int" -> I(1)
    [] f.type = "bool" -> B(TRUE)
    [] f.type = "datetime" -> T(0)
    [] f.type = "Decimal" -> D(5100, 3)
    [] f.type = "Gender" -> S(Female)
    [] f.type = "AgeGroup" -> S(Adult)
    [] f.type = "TestStatus" -> S(Completed)

BaseData(sname) == [k \in DOMAIN Schemas[sname] |-> ValidValue(Schemas[sname][k])]

\* Lengths on both sides of every limit a string field can have.
ProbeLengths ==
  {0, 10, 11, 20, 21, 50, 51, 100, 101, 200, 201, 255, 256, 300, 301,
   500, 501, 1000, 1001}

\* Strings that are, or are not, the value of a member of an enumeration.
ProbeWords ==
  {Pending, Completed, Reviewed, Male, Female, Other, Child, Teen, Adult,
   Senior, UpperMale, Unknown, <<>>}

\* Values tried for a field of the given type.
ProbeValues(f) ==
  CASE f.type = "str" ->
         {S(Pad(n)) : n \in ProbeLengths} \cup
         {S(EmailA), S(EmailB), S(EmailBad), S(EmailBad2), None}
    [] f.type \in EnumTypes -> {S(w) : w \in ProbeWords} \cup {None}
    [] f.type = "Decimal" ->
         {D(5, 0), D(51, 1), D(512, 2), D(5123, 3), D(51234, 4), None}
    [] OTHER -> {ValidValue(f), None}

Without(data, k) == [j \in DOMAIN data \ {k} |-> data[j]]

Probes(sname) ==
  UNION {{[BaseData(sname) EXCEPT ![k] = v] :
            v \in ProbeValues(Schemas[sname][k])} :
         k \in DOMAIN Schemas[sname]} \cup
  {Without(BaseData(sname), k) : k \in DOMAIN Schemas[sname]}

ConstructUserCreate ==
  \E data \in Probes("UserCreate") :
    /\ last' = Construct("UserCreate", data)
    /\ UNCHANGED <<db, now>>

ConstructUserUpdate ==
  \E data \in Probes("UserUpdate") :
    /\ last' = Construct("UserUpdate", data)
    /\ UNCHANGED <<db, now>>

ConstructTestTypeCreate ==
  \E data \in Probes("TestTypeCreate") :
    /\ last' = Construct("TestTypeCreate", data)
    /\ UNCHANGED <<db, now>>

ConstructTestParameterCreate ==
  \E data \in Probes("TestParameterCreate") :
    /\ last' = Construct("TestParameterCreate", data)
    /\ UNCHANGED <<db, now>>

ConstructReferenceRangeCreate ==
  \E data \in Probes("ReferenceRangeCreate") :
    /\ last' = Construct("ReferenceRangeCreate", data)
    /\ UNCHANGED <<db, now>>

ConstructTestReportCreate ==
  \E data \in Probes("TestReportCreate") :
    /\ last' = Construct("TestReportCreate", data)
    /\ UNCHANGED <<db, now>>

ConstructTestReportUpdate ==
  \E data \in Probes("TestReportUpdate") :
    /\ last' = Construct("TestReportUpdate", data)
    /\ UNCHANGED <<db, now>>

ConstructTestResultCreate ==
  \E data \in Probes("TestResultCreate") :
    /\ last' = Construct("TestResultCreate", data)
    /\ UNCHANGED <<db, now>>

ConstructTestResultUpdate ==
  \E data \in Probes("TestResultUpdate") :
    /\ last' = Construct("TestResultUpdate", data)
    /\ UNCHANGED <<db, now>>


SchemaNext ==
  \/ ConstructUserCreate
  \/ ConstructUserUpdate
  \/ ConstructTestTypeCreate
  \/ ConstructTestParameterCreate
  \/ ConstructReferenceRangeCreate
  \/ ConstructTestReportCreate
  \/ ConstructTestReportUpdate
  \/ ConstructTestResultCreate
  \/ ConstructTestResultUpdate

\* Construction of transfer schemas alone.
SchemaSpec == Init /\ [][SchemaNext]_vars

(***************************************************************************)
(* The write operations on the tables.                                     *)
(***************************************************************************)
CreateUser(data) ==
  /\ Len(db.users) < MaxUsers
  /\ LET o == Create("CreateUser", "users", "UserCreate", data)
     IN db' = o.db /\ last' = o.last
  /\ UNCHANGED now

PatchUser(id, data) ==
  /\ id \in 1..Len(db.users)
  /\ LET o == Patch("PatchUser", "users", "UserUpdate", id, data)
     IN db' = o.db /\ last' = o.last
  /\ UNCHANGED now

CreateTestType(data) ==
  /\ Len(db.test_types) < MaxTypes
  /\ LET o == Create("CreateTestType", "test_types", "TestTypeCreate", data)
     IN db' = o.db /\ last' = o.last
  /\ UNCHANGED now

CreateTestParameter(data) ==
  /\ Len(db.test_parameters) < MaxParams
  /\ LET o == Create("CreateTestParameter", "test_parameters",
                     "TestParameterCreate", data)
     IN db' = o.db /\ last' = o.last
  /\ UNCHANGED now

DeactivateTestParameter(id) ==
  /\ id \in 1..Len(db.test_parameters)
  /\ LET o == Deactivate("DeactivateTestParameter", "test_parameters", id)
     IN db' = o.db /\ last' = o.last
  /\ UNCHANGED now

CreateReferenceRange(data) ==
  /\ Len(db.reference_ranges) < MaxRanges
  /\ LET o == Create("CreateReferenceRange", "reference_ranges",
                     "ReferenceRangeCreate", data)
     IN db' = o.db /\ last' = o.last
  /\ UNCHANGED now

CreateTestReport(data) ==
  /\ Len(db.test_reports) < MaxReports
  /\ LET o == Create("CreateTestReport", "test_reports", "TestReportCreate",
                     data)
     IN db' = o.db /\ last' = o.last
  /\ UNCHANGED now

PatchTestReport(id, data) ==
  /\ id \in 1..Len(db.test_reports)
  /\ LET o == Patch("PatchTestReport", "test_reports", "TestReportUpdate",
                    id, data)
     IN db' = o.db /\ last' = o.last
  /\ UNCHANGED now

CreateTestResult(data) ==
  /\ Len(db.test_results) < MaxResults
  /\ LET o == Create("CreateTestResult", "test_results", "TestResultCreate",
                     data)
     IN db' = o.db /\ last' = o.last
  /\ UNCHANGED now

PatchTestResult(id, data) ==
  /\ id \in 1..Len(db.test_results)
  /\ LET o == Patch("PatchTestResult", "test_results", "TestResultUpdate",
                    id, data)
     IN db' = o.db /\ last' = o.last
  /\ UNCHANGED now

(***************************************************************************)
(* Caller data for the write operations.                                   *)
(***************************************************************************)
TypeX == <<"B","l","o","o","d">>
TypeY == <<"H","o","r","m","o","n","e">>
Hgb == <<"H","G","B">>
Unit == <<"g","/","d","L">>
FlagH == <<"H">>

UserData(e) == ("name" :> S(NameA)) @@ ("email" :> S(e))
TypeData(n) == ("name" :> S(n)) @@ ("category" :> S(TypeX))
ParamData(t) ==
  ("test_type_id" :> I(t)) @@ ("name" :> S(Hgb)) @@ ("code" :> S(Hgb)) @@
  ("unit" :> S(Unit))
RangeData(p, lo, hi) ==
  ("test_parameter_id" :> I(p)) @@ ("min_value" :> lo) @@ ("max_value" :> hi)
ReportData(u, t) ==
  ("user_id" :> I(u)) @@ ("test_type_id" :> I(t)) @@
  ("report_name" :> S(NameA)) @@ ("test_date" :> T(0))
ResultData(r, p, d) ==
  ("test_report_id" :> I(r)) @@ ("test_parameter_id" :> I(p)) @@
  ("value" :> d)

\* Keys a caller may send for fields that the server assigns.
ServerKeys ==
  ("id" :> I(7)) @@ ("created_at" :> T(9)) @@ ("status" :> S(Reviewed))


(***************************************************************************)
(* Properties of schema construction.                                      *)
(***************************************************************************)
\* The max lengths the Create schemas declare on their string fields.
C3_DeclaredMaxLength ==
  [UserCreate |-> [name |-> 100, email |-> 255],
   TestTypeCreate |-> [name |-> 100, description |-> 500, category |-> 50],
   TestParameterCreate |->
     [name |-> 100, code |-> 20, unit |-> 20, description |-> 300],
   ReferenceRangeCreate |-> [notes |-> 300],
   TestReportCreate |->
     [report_name |-> 200, lab_name |-> 100, doctor_name |-> 100,
      notes |-> 1000],
   TestResultCreate |-> [abnormal_flag |-> 10, notes |-> 300]]

\* C3: for every Create schema and every string field with a declared max
\* length N, construction with the field at length N+1 fails with a
\* validation error naming the field, and construction with the field at
\* length exactly N, every other field valid, succeeds.
C3_MaxLengthBoundary ==
  \A sname \in DOMAIN C3_DeclaredMaxLength :
    last.op = sname =>
      \A k \in DOMAIN C3_DeclaredMaxLength[sname] :
        LET n == C3_DeclaredMaxLength[sname][k]
            given == k \in DOMAIN last.data /\ last.data[k].t = "str"
            othersValid ==
              /\ DOMAIN last.data = DOMAIN Schemas[sname]
              /\ \A j \in DOMAIN last.data \ {k} :
                   last.data[j] = BaseData(sname)[j]
        IN /\ (given /\ Len(last.data[k].v) = n + 1) =>
                /\ ~last.ok
                /\ last.error = "ValidationError"
                /\ k \in last.fields
           /\ (given /\ Len(last.data[k].v) = n /\ othersValid) =>
                /\ last.ok
                /\ last.instance[k] = last.data[k]

\* A TestReportCreate with notes of 1001 characters has been refused.
C3_Witness ==
  /\ last.op = "TestReportCreate"
  /\ "notes" \in DOMAIN last.data
  /\ last.data["notes"].t = "str"
  /\ Len(last.data["notes"].v) = 1001
  /\ ~last.ok
  /\ last.fields = {"notes"}

\* The closed sets of the enumerated fields of the transfer schemas.
C4_GenderValues ==
  {<<"m","a","l","e">>, <<"f","e","m","a","l","e">>, <<"o","t","h","e","r">>}
C4_AgeGroupValues ==
  {<<"c","h","i","l","d">>, <<"t","e","e","n">>, <<"a","d","u","l","t">>,
   <<"s","e","n","i","o","r">>}
C4_StatusValues ==
  {<<"p","e","n","d","i","n","g">>, <<"c","o","m","p","l","e","t","e","d">>,
   <<"r","e","v","i","e","w","e","d">>}
C4_EnumFields ==
  [UserCreate |-> [gender |-> C4_GenderValues],
   UserUpdate |-> [gender |-> C4_GenderValues],
   ReferenceRangeCreate |->
     [gender |-> C4_GenderValues, age_group |-> C4_AgeGroupValues],
   TestReportUpdate |-> [status |-> C4_StatusValues]]

\* C4: an enumerated field given a string outside its closed set fails
\* validation, given any listed value (every other field valid) it
\* succeeds, and an accepted instance holds a listed value or None there.
C4_EnumClosedSet ==
  \A sname \in DOMAIN C4_EnumFields :
    last.op = sname =>
      \A k \in DOMAIN C4_EnumFields[sname] :
        LET closed == C4_EnumFields[sname][k]
            given == k \in DOMAIN last.data /\ last.data[k].t = "str"
            othersValid ==
              /\ DOMAIN last.data = DOMAIN Schemas[sname]
              /\ \A j \in DOMAIN last.data \ {k} :
                   last.data[j] = BaseData(sname)[j]
        IN /\ (given /\ last.data[k].v \notin closed) =>
                /\ ~last.ok
                /\ last.error = "ValidationError"
                /\ k \in last.fields
           /\ (given /\ last.data[k].v \in closed /\ othersValid) => last.ok
           /\ last.ok =>
                \/ last.instance[k] = None
                \/ /\ last.instance[k].t = "str"
                   /\ last.instance[k].v \in closed

\* A ReferenceRangeCreate with age_group "male" (a value of another
\* enumeration) has been refused.
C4_Witness ==
  /\ last.op = "ReferenceRangeCreate"
  /\ "age_group" \in DOMAIN last.data
  /\ last.data["age_group"] = S(<<"m","a","l","e">>)
  /\ ~last.ok
  /\ last.fields = {"age_group"}

(***************************************************************************)
(* The users table: creation and patching of users.                        *)
(***************************************************************************)
UserCreateInputs ==
  {UserData(e) : e \in {EmailA, EmailB, EmailBad}} \cup
  {"name" :> S(NameA)}

UserUpdateInputs ==
  {<<>>} \cup
  {"email" :> S(e) : e \in {EmailA, EmailB, EmailBad}} \cup
  {"name" :> S(NameB), "gender" :> S(Male), "gender" :> S(UpperMale)}

UserNext ==
  \/ \E data \in UserCreateInputs : CreateUser(data)
  \/ \E id \in 1..MaxUsers : \E data \in UserUpdateInputs : PatchUser(id, data)

UserSpec == Init /\ [][UserNext]_vars

EmailsDistinct ==
  \A i, j \in 1..Len(db.users) :
    i # j => db.users[i].email # db.users[j].email

\* The step is a create or a patch of a user that carries an email which
\* another user already has.
DuplicateEmailAttempt ==
  /\ last' # last
  /\ last'.op \in {"CreateUser", "PatchUser"}
  /\ "email" \in DOMAIN last'.data
  /\ \E r \in Rows(db, "users") :
       /\ r.email = last'.data["email"]
       /\ last'.op = "PatchUser" => r.id # I(last'.id)

\* C1: no two distinct users have the same email in any reachable state,
\* and a create or patch that would produce a duplicate email is rejected
\* and leaves the tables unchanged.
C1_EmailUnique ==
  /\ []EmailsDistinct
  /\ [][DuplicateEmailAttempt => (~last'.ok /\ db' = db)]_vars

\* Two users exist and a patch that tried to give one the other's email
\* has been rejected by the table.
C1_Witness ==
  /\ Len(db.users) = 2
  /\ last.op = "PatchUser"
  /\ "email" \in DOMAIN last.data
  /\ \E r \in Rows(db, "users") :
       r.id # I(last.id) /\ r.email = last.data["email"]
  /\ ~last.ok
  /\ last.error = "IntegrityError"

\* C5: a UserCreate, or a UserUpdate that sets email, whose email does not
\* match the pattern declared on User.email fails with a validation error
\* naming the email field, and no user record carries an email that
\* violates the pattern.
C5_EmailPatternEnforced ==
  /\ ( /\ last.op \in {"CreateUser", "PatchUser"}
       /\ "email" \in DOMAIN last.data
       /\ ~MatchesEmailPattern(last.data["email"].v) )
     => ( /\ ~last.ok
          /\ last.error = "ValidationError"
          /\ "email" \in last.fields )
  /\ \A r \in Rows(db, "users") : MatchesEmailPattern(r.email.v)

(***************************************************************************)
(* The tables and their references: every entity is created, reports and   *)
(* results are patched.                                                    *)
(***************************************************************************)
ParamInputs ==
  {ParamData(t) : t \in 1..(MaxTypes + 1)} \cup
  {Without(ParamData(1), "test_type_id")}

ReportInputs ==
  {ReportData(u, t) : u \in 1..2, t \in 1..(MaxTypes + 1)} \cup
  {Without(ReportData(1, 1), "user_id")}

ResultInputs ==
  {ResultData(r, p, D(51, 1)) :
     r \in 1..(MaxReports + 1), p \in 1..(MaxParams + 1)} \cup
  {Without(ResultData(1, 1, D(51, 1)), "test_parameter_id")}

\* A patch that names other records in the foreign-key fields.
ReferencePatch ==
  ("user_id" :> I(2)) @@ ("test_type_id" :> I(2)) @@
  ("test_report_id" :> I(2)) @@ ("test_parameter_id" :> I(2))

Next ==
  \/ CreateUser(UserData(EmailA))
  \/ \E n \in {TypeX, TypeY} : CreateTestType(TypeData(n))
  \/ \E data \in ParamInputs : CreateTestParameter(data)
  \/ \E data \in ReportInputs : CreateTestReport(data)
  \/ \E data \in ResultInputs : CreateTestResult(data)
  \/ \E id \in 1..MaxReports : PatchTestReport(id, ReferencePatch)
  \/ \E id \in 1..MaxResults : PatchTestResult(id, ReferencePatch)

Spec == Init /\ [][Next]_vars

\* The rows of a table whose id is the given value.
Referenced(tname, ref) == {r \in Rows(db, tname) : r.id = ref}

ReferencesValid ==
  /\ \A p \in Rows(db, "test_parameters") :
       Cardinality(Referenced("test_types", p.test_type_id)) = 1
  /\ \A r \in Rows(db, "test_reports") :
       /\ Cardinality(Referenced("users", r.user_id)) = 1
       /\ Cardinality(Referenced("test_types", r.test_type_id)) = 1
  /\ \A x \in Rows(db, "test_results") :
       /\ Cardinality(Referenced("test_reports", x.test_report_id)) = 1
       /\ Cardinality(Referenced("test_parameters", x.test_parameter_id)) = 1

\* The caller's data leaves out the key or names a record that does not
\* exist.
BadReference(data, key, tname) ==
  \/ key \notin DOMAIN data
  \/ Referenced(tname, data[key]) = {}

BadReferenceCreate ==
  /\ now' = now
  /\ \/ /\ last'.op = "CreateTestParameter"
        /\ BadReference(last'.data, "test_type_id", "test_types")
     \/ /\ last'.op = "CreateTestReport"
        /\ \/ BadReference(last'.data, "user_id", "users")
           \/ BadReference(last'.data, "test_type_id", "test_types")
     \/ /\ last'.op = "CreateTestResult"
        /\ \/ BadReference(last'.data, "test_report_id", "test_reports")
           \/ BadReference(last'.data, "test_parameter_id", "test_parameters")

ReferencesKept ==
  /\ \A i \in 1..Len(db.test_parameters) :
       db'.test_parameters[i].test_type_id = db.test_parameters[i].test_type_id
  /\ \A i \in 1..Len(db.test_reports) :
       /\ db'.test_reports[i].user_id = db.test_reports[i].user_id
       /\ db'.test_reports[i].test_type_id = db.test_reports[i].test_type_id
  /\ \A i \in 1..Len(db.test_results) :
       /\ db'.test_results[i].test_report_id = db.test_results[i].test_report_id
       /\ db'.test_results[i].test_parameter_id =
            db.test_results[i].test_parameter_id

\* C9: in every reachable state every TestParameter references exactly one
\* existing TestType, every TestReport one existing User and one existing
\* TestType, every TestResult one existing TestReport and one existing
\* TestParameter; a create whose foreign key is missing or names no record
\* is rejected and changes nothing; no step changes a foreign key of an
\* existing row.
C9_ReferentialIntegrity ==
  /\ []ReferencesValid
  /\ [][BadReferenceCreate => (~last'.ok /\ db' = db)]_vars
  /\ [][ReferencesKept]_vars

\* A result exists, a patch naming other records in foreign-key fields has
\* been applied to it, and it still references its report and parameter.
C9_Witness ==
  /\ Len(db.test_results) = 1
  /\ last.op = "PatchTestResult"
  /\ last.ok
  /\ last.data = ReferencePatch
  /\ db.test_results[1].test_parameter_id = I(1)

\* C10: for every TestResult the TestParameter it references belongs to the
\* TestType of the TestReport it belongs to.
C10_SameTestType ==
  \A x \in Rows(db, "test_results") :
    \A p \in Referenced("test_parameters", x.test_parameter_id) :
      \A r \in Referenced("test_reports", x.test_report_id) :
        p.test_type_id = r.test_type_id

(***************************************************************************)
(* Deactivation of parameters that results reference.                      *)
(***************************************************************************)
DeactivateNext ==
  \/ CreateUser(UserData(EmailA))
  \/ CreateTestType(TypeData(TypeX))
  \/ CreateTestParameter(ParamData(1))
  \/ CreateTestReport(ReportData(1, 1))
  \/ \E p \in 1..MaxParams : \E d \in {D(51, 1), D(150000, 3)} :
       CreateTestResult(ResultData(1, p, d))
  \/ \E id \in 1..MaxParams : DeactivateTestParameter(id)

DeactivateSpec == Init /\ [][DeactivateNext]_vars

\* The step deactivates a parameter.
DeactivateStep == now' = now /\ last'.op = "DeactivateTestParameter"

NoRowRemoved ==
  \A tname \in TableNames :
    /\ Len(db'[tname]) >= Len(db[tname])
    /\ \A i \in 1..Len(db[tname]) : db'[tname][i].id = db[tname][i].id

\* C8: deactivating a TestParameter changes only that parameter's is_active
\* flag (the TestResult rows that reference it, and every other row, are as
\* before), and no step removes a row of any table.
C8_DeactivateKeepsResults ==
  /\ [][DeactivateStep =>
          /\ db'.test_parameters[last'.id].is_active = B(FALSE)
          /\ db' = [db EXCEPT !.test_parameters[last'.id].is_active =
                                 db'.test_parameters[last'.id].is_active]
          /\ db'.test_results = db.test_results]_vars
  /\ [][NoRowRemoved]_vars

\* A parameter that a result references has been deactivated; the result is
\* still there.
C8_Witness ==
  /\ last.op = "DeactivateTestParameter"
  /\ db.test_parameters[last.id].is_active = B(FALSE)
  /\ \E x \in Rows(db, "test_results") : x.test_parameter_id = I(last.id)

(***************************************************************************)
(* Patches of users, reports and results.                                  *)
(***************************************************************************)
UserPatches ==
  {<<>>, "name" :> S(NameB), ("name" :> None) @@ ("gender" :> S(Female))}

ReportPatches == {<<>>, "status" :> S(Completed)}

ResultPatches ==
  {<<>>, "value" :> D(7, 0),
   ("is_abnormal" :> B(TRUE)) @@ ("abnormal_flag" :> S(FlagH))}

PatchNext ==
  \/ CreateUser(UserData(EmailA))
  \/ CreateTestType(TypeData(TypeX))
  \/ CreateTestParameter(ParamData(1))
  \/ CreateTestReport(ReportData(1, 1))
  \/ CreateTestResult(ResultData(1, 1, D(51, 1)))
  \/ \E id \in 1..MaxUsers : \E data \in UserPatches : PatchUser(id, data)
  \/ \E id \in 1..MaxReports : \E data \in ReportPatches :
       PatchTestReport(id, data)
  \/ \E id \in 1..MaxResults : \E data \in ResultPatches :
       PatchTestResult(id, data)

PatchSpec == Init /\ [][PatchNext]_vars

\* The step applies an accepted Update schema to a row.
PatchStep ==
  /\ now' = now
  /\ last'.op \in {"PatchUser", "PatchTestReport", "PatchTestResult"}
  /\ last'.ok

\* C2: applying an Update schema built with no field set leaves every field
\* of the target row (and everything else) unchanged; a field absent from
\* the patch keeps its previous value in the row, and no other row changes.
C2_PatchFrame ==
  [][PatchStep =>
       LET tname == last'.table
           id == last'.id
       IN /\ \A k \in DOMAIN db[tname][id] \ DOMAIN last'.data :
               db'[tname][id][k] = db[tname][id][k]
          /\ DOMAIN last'.data = {} => db' = db
          /\ \A other \in TableNames : \A i \in 1..Len(db[other]) :
               (other # tname \/ i # id) => db'[other][i] = db[other][i]]_vars

\* An empty TestReportUpdate has been applied to a report whose status had
\* been moved away from its default.
C2_Witness ==
  /\ last.op = "PatchTestReport"
  /\ last.ok
  /\ DOMAIN last.data = {}
  /\ db.test_reports[last.id].status = S(Completed)

(***************************************************************************)
(* Fields the server assigns: callers send keys for them.                  *)
(***************************************************************************)
ServerNext ==
  \/ Tick
  \/ \E data \in {UserData(EmailA), UserData(EmailB) @@ ServerKeys} :
       CreateUser(data)
  \/ CreateTestType(TypeData(TypeX) @@ ServerKeys)
  \/ \E data \in {ReportData(1, 1), ReportData(1, 1) @@ ServerKeys} :
       CreateTestReport(data)
  \/ \E id \in 1..MaxUsers :
       PatchUser(id, ("name" :> S(NameB)) @@ ServerKeys)
  \/ \E id \in 1..MaxReports :
       \E data \in {("id" :> I(7)) @@ ("created_at" :> T(9)), ServerKeys} :
         PatchTestReport(id, data)

ServerSpec == Init /\ [][ServerNext]_vars

\* id and created_at of the rows that exist stay as they are; a row that a
\* step adds carries the next id of its table and the clock's time, and an
\* added report is pending.
ServerAssigned ==
  \A tname \in TableNames :
    /\ Len(db'[tname]) >= Len(db[tname])
    /\ \A i \in 1..Len(db[tname]) :
         /\ db'[tname][i].id = db[tname][i].id
         /\ db'[tname][i].created_at = db[tname][i].created_at
    /\ \A i \in (Len(db[tname]) + 1)..Len(db'[tname]) :
         /\ db'[tname][i].id = I(i)
         /\ db'[tname][i].created_at = T(now)
         /\ tname = "test_reports" => db'[tname][i].status = S(Pending)

StatusKept ==
  \A i \in 1..Len(db.test_reports) :
    db'.test_reports[i].status = db.test_reports[i].status

\* C6 as amended: id and created_at are never caller-settable, through no
\* Create or Update schema, and a new TestReport is pending whatever the
\* caller sends.
C6_IdAndCreatedAtServerAssigned == [][ServerAssigned]_vars

\* C6 as stated: id, created_at and status are never caller-settable; no
\* Create or Update schema lets a caller supply or change them.
C6_ServerAssignedFields == [][ServerAssigned /\ StatusKept]_vars

\* A report has been created from data that carried id, created_at and
\* status; the row has the table's id, the clock's time and status pending.
C6_Witness ==
  /\ last.op = "CreateTestReport"
  /\ last.ok
  /\ {"id", "created_at", "status"} \subseteq DOMAIN last.data
  /\ now = 1
  /\ db.test_reports[last.id].id = I(1)
  /\ db.test_reports[last.id].created_at = T(1)
  /\ db.test_reports[last.id].status = S(Pending)

(***************************************************************************)
(* Decimal values through the tables.                                      *)
(***************************************************************************)
Decimals == {D(5, 0), D(51, 1), D(150000, 3), D(51234, 4)}

DecimalNext ==
  \/ CreateUser(UserData(EmailA))
  \/ CreateTestType(TypeData(TypeX))
  \/ CreateTestParameter(ParamData(1))
  \/ CreateTestReport(ReportData(1, 1))
  \/ \E lo \in Decimals : \E hi \in {D(1000, 0), D(99995, 4)} :
       CreateReferenceRange(RangeData(1, lo, hi))
  \/ \E d \in Decimals : CreateTestResult(ResultData(1, 1, d))
  \/ \E id \in 1..MaxResults : \E d \in Decimals :
       PatchTestResult(id, "value" :> d)

DecimalSpec == Init /\ [][DecimalNext]_vars

DecimalColumns ==
  [test_results |-> {"value"},
   reference_ranges |-> {"min_value", "max_value", "optimal_min", "optimal_max"}]

\* The decimal a is numerically the decimal b.
SameNumber(a, b) == a.coef * Pow10(b.places) = b.coef * Pow10(a.places)

\* C7: every stored decimal has exactly 3 fractional digits; an accepted
\* input reads back with 3 fractional digits and numerically equal to the
\* input; an input with more than 3 fractional digits is not accepted.
C7_ThreeFractionalDigits ==
  /\ \A tname \in DOMAIN DecimalColumns : \A r \in Rows(db, tname) :
       \A k \in DecimalColumns[tname] : r[k] # None => r[k].places = 3
  /\ last.op \in {"CreateTestResult", "PatchTestResult", "CreateReferenceRange"}
     => \A k \in DecimalColumns[last.table] \cap DOMAIN last.data :
          IF last.data[k].places > 3
            THEN ~last.ok /\ last.error = "ValidationError" /\ k \in last.fields
            ELSE /\ k \notin last.fields
                 /\ last.ok =>
                      /\ db[last.table][last.id][k].places = 3
                      /\ SameNumber(db[last.table][last.id][k], last.data[k])

\* A result created with value 5.1 reads back as 5.100.
C7_Witness ==
  /\ last.op = "CreateTestResult"
  /\ last.ok
  /\ last.data["value"] = D(51, 1)
  /\ db.test_results[last.id].value = D(5100, 3)

====
